---------------------------- MODULE Spec2Model ----------------------------
(***************************************************************************)
(* Model of src/src/transformer.py: the pure field normalisers             *)
(* (clean_text, standardize_location), parse_salary, extract_skills,       *)
(* infer_seniority, and transform_records with its deduplication pass.     *)
(*                                                                         *)
(* A Python str is a sequence of characters; a character is a one-letter   *)
(* TLA+ string, or "U+XXXX" for a character outside ASCII.  None is Null.  *)
(* An optional number is <<>> (None) or <<v>>.                             *)
(***************************************************************************)
EXTENDS Integers, Sequences, FiniteSets, TLC

VARIABLES
    COMMON_SKILLS,   \* module global, transformer.py:28
    SENIORITY_MAP,   \* module global, transformer.py:35 (dict, insertion ordered)
    pc,              \* position of the call in progress
    args,            \* arguments of the call in progress
    out,             \* transform_records' local list `out`
    ret              \* the value returned (or the exception raised)

vars == <<COMMON_SKILLS, SENIORITY_MAP, pc, args, out, ret>>

---------------------------------------------------------------------------
(* Bounds of the input sets. *)
MaxTextLen == 5
MaxSalaryLen == 5
MaxCurrencyAtoms == 3
MaxSkillAtoms == 3
MaxTitleAtoms == 3
MaxLocAtoms == 4
MaxRecords == 3

---------------------------------------------------------------------------
(* Python values. *)
Null == <<"None">>
\* None where a list of str is expected
NullList == <<Null>>
None == <<>>
Some(v) == <<v>>
NoReturn == [kind |-> "none"]
Returned(v) == [kind |-> "value", value |-> v]
Raised(e) == [kind |-> "raise", exc |-> e]

\* Python truthiness of an Optional[str]: None and "" are falsy.
Truthy(s) == s # Null /\ s # <<>>

\* `a or b` on Optional[str] operands.
Or(a, b) == IF Truthy(a) THEN a ELSE b

---------------------------------------------------------------------------
(* Characters, in code point order. *)
CodePoints ==
    <<"\t", "\n", "\r", " ", "#", "$", "+", ",", "-", ".",
      "0", "1", "2", "3", "4", "5", "6", "7", "8", "9",
      "A", "B", "C", "D", "E", "F", "G", "H", "I", "J", "K", "L", "M",
      "N", "O", "P", "Q", "R", "S", "T", "U", "V", "W", "X", "Y", "Z",
      "_",
      "a", "b", "c", "d", "e", "f", "g", "h", "i", "j", "k", "l", "m",
      "n", "o", "p", "q", "r", "s", "t", "u", "v", "w", "x", "y", "z",
      "U+00AC", "U+00E2", "U+201A", "U+20AC">>

Ord(c) == CHOOSE i \in 1..Len(CodePoints) : CodePoints[i] = c

UpperLetters == <<"A", "B", "C", "D", "E", "F", "G", "H", "I", "J", "K", "L", "M",
                  "N", "O", "P", "Q", "R", "S", "T", "U", "V", "W", "X", "Y", "Z">>
LowerLetters == <<"a", "b", "c", "d", "e", "f", "g", "h", "i", "j", "k", "l", "m",
                  "n", "o", "p", "q", "r", "s", "t", "u", "v", "w", "x", "y", "z">>
Digits == <<"0", "1", "2", "3", "4", "5", "6", "7", "8", "9">>

Range(f) == {f[i] : i \in DOMAIN f}

IsUpper(c) == c \in Range(UpperLetters)
IsLower(c) == c \in Range(LowerLetters) \cup {"U+00E2"}
IsCased(c) == IsUpper(c) \/ IsLower(c)
IsDigit(c) == c \in Range(Digits)
\* str.strip() / regex \s
IsSpace(c) == c \in {"\t", "\n", "\r", " "}
\* regex \w
IsWord(c) == IsCased(c) \/ IsDigit(c) \/ c = "_"

LowerChar(c) ==
    IF IsUpper(c) THEN LowerLetters[CHOOSE i \in 1..26 : UpperLetters[i] = c] ELSE c
UpperChar(c) ==
    IF c \in Range(LowerLetters)
    THEN UpperLetters[CHOOSE i \in 1..26 : LowerLetters[i] = c] ELSE c
DigitVal(c) == (CHOOSE i \in 1..10 : Digits[i] = c) - 1

\* str.lower()
Lower(s) == [i \in 1..Len(s) |-> LowerChar(s[i])]

\* s[i:] and s[i:j] with 1-based inclusive bounds
From(s, i) == SubSeq(s, i, Len(s))

\* `sub in s`
StartsAt(s, sub, i) ==
    /\ i + Len(sub) - 1 <= Len(s)
    /\ \A j \in 1..Len(sub) : s[i + j - 1] = sub[j]
Contains(s, sub) == \E i \in 1..(Len(s) + 1) : StartsAt(s, sub, i)

\* concatenation of a sequence of strings
RECURSIVE Concat(_)
Concat(ss) == IF ss = <<>> THEN <<>> ELSE Head(ss) \o Concat(Tail(ss))

\* all sequences over S of length at most n
SeqsUpTo(S, n) == UNION {[1..k -> S] : k \in 0..n}

---------------------------------------------------------------------------
(* Module globals, transformer.py:28-45 *)

BuiltinSkills ==
    <<<<"p", "y", "t", "h", "o", "n">>,
      <<"s", "q", "l">>,
      <<"a", "w", "s">>,
      <<"d", "o", "c", "k", "e", "r">>,
      <<"k", "u", "b", "e", "r", "n", "e", "t", "e", "s">>,
      <<"p", "a", "n", "d", "a", "s">>,
      <<"s", "p", "a", "r", "k">>,
      <<"t", "e", "n", "s", "o", "r", "f", "l", "o", "w">>,
      <<"p", "y", "t", "o", "r", "c", "h">>,
      <<"s", "c", "i", "k", "i", "t", "-", "l", "e", "a", "r", "n">>,
      <<"e", "x", "c", "e", "l">>,
      <<"t", "a", "b", "l", "e", "a", "u">>,
      <<"p", "o", "w", "e", "r", "b", "i">>,
      <<"j", "a", "v", "a">>,
      <<"s", "c", "a", "l", "a">>,
      <<"r">>,
      <<"j", "a", "v", "a", "s", "c", "r", "i", "p", "t">>>>

SeniorityTable ==
    <<[k |-> <<"s", "e", "n", "i", "o", "r">>, v |-> "senior"],
      [k |-> <<"s", "r", ".">>, v |-> "senior"],
      [k |-> <<"l", "e", "a", "d">>, v |-> "senior"],
      [k |-> <<"p", "r", "i", "n", "c", "i", "p", "a", "l">>, v |-> "senior"],
      [k |-> <<"s", "t", "a", "f", "f">>, v |-> "senior"],
      [k |-> <<"j", "u", "n", "i", "o", "r">>, v |-> "junior"],
      [k |-> <<"j", "r", ".">>, v |-> "junior"],
      [k |-> <<"i", "n", "t", "e", "r", "n">>, v |-> "intern"],
      [k |-> <<"m", "a", "n", "a", "g", "e", "r">>, v |-> "manager"]>>

---------------------------------------------------------------------------
(* clean_text, transformer.py:67-76 *)

\* re.sub(r"\r\n", "\n", s): one left-to-right pass over non-overlapping matches
RECURSIVE SubCRLF(_)
SubCRLF(s) ==
    IF s = <<>> THEN <<>>
    ELSE IF Len(s) >= 2 /\ s[1] = "\r" /\ s[2] = "\n"
         THEN <<"\n">> \o SubCRLF(From(s, 3))
         ELSE <<s[1]>> \o SubCRLF(Tail(s))

\* re.sub(r"\n+", "\n", s)
RECURSIVE SubNewlines(_)
SubNewlines(s) ==
    IF s = <<>> THEN <<>>
    ELSE IF s[1] = "\n" /\ Len(s) >= 2 /\ s[2] = "\n"
         THEN SubNewlines(Tail(s))
         ELSE <<s[1]>> \o SubNewlines(Tail(s))

\* str.strip()
RECURSIVE LStrip(_)
LStrip(s) == IF s # <<>> /\ IsSpace(s[1]) THEN LStrip(Tail(s)) ELSE s
RECURSIVE RStrip(_)
RStrip(s) ==
    IF s # <<>> /\ IsSpace(s[Len(s)]) THEN RStrip(SubSeq(s, 1, Len(s) - 1)) ELSE s
Strip(s) == RStrip(LStrip(s))

\* a cleaner that forgets the final strip()
clean_text_unstripped(s) ==
    IF ~Truthy(s) THEN <<>> ELSE SubNewlines(SubCRLF(s))
clean_text(s) ==
    IF ~Truthy(s) THEN <<>> ELSE Strip(SubNewlines(SubCRLF(s)))

TextChars == {"\r", "\n", " ", "a"}
TextInputs == {Null} \cup SeqsUpTo(TextChars, MaxTextLen)

InitBase ==
    /\ COMMON_SKILLS = BuiltinSkills
    /\ SENIORITY_MAP = SeniorityTable
    /\ pc = "call"
    /\ out = <<>>
    /\ ret = NoReturn

CallCleanText ==
    /\ pc = "call"
    /\ args.fn = "clean_text"
    /\ ret' = Returned(clean_text(args.s))
    /\ pc' = "return"
    /\ UNCHANGED <<COMMON_SKILLS, SENIORITY_MAP, args, out>>

InitCleanText ==
    /\ InitBase
    /\ args \in {[fn |-> "clean_text", s |-> s] : s \in TextInputs}

SpecCleanText == InitCleanText /\ [][CallCleanText]_vars

HasNewlineRun(s) == \E i \in 1..(Len(s) - 1) : s[i] = "\n" /\ s[i + 1] = "\n"
HasOuterSpace(s) == s # <<>> /\ (IsSpace(s[1]) \/ IsSpace(s[Len(s)]))
CleanTextReturned == pc = "return" /\ args.fn = "clean_text"

\* C8 as stated: clean_text's result holds no "\r\n", no run of two or more
\* newlines and no leading or trailing whitespace; None yields "".
C8_Original ==
    CleanTextReturned =>
        /\ ~Contains(ret.value, <<"\r", "\n">>)
        /\ ~HasNewlineRun(ret.value)
        /\ ~HasOuterSpace(ret.value)
        /\ (~Truthy(args.s) => ret.value = <<>>)

\* C8 amended: the result holds no run of two or more newlines and no leading
\* or trailing whitespace, None or "" yields "", and the result holds no "\r\n"
\* whenever the input holds no "\r\r\n" (the replacement is a single pass, so
\* "\r\r\n" becomes "\r\n").
C8_CleanText ==
    CleanTextReturned =>
        /\ (~Contains(args.s, <<"\r", "\r", "\n">>) =>
                ~Contains(ret.value, <<"\r", "\n">>))
        /\ ~HasNewlineRun(ret.value)
        /\ ~HasOuterSpace(ret.value)
        /\ (~Truthy(args.s) => ret.value = <<>>)

\* a call whose input holds "\r\n" and outer whitespace around two lines
C8_Witness ==
    /\ CleanTextReturned
    /\ Truthy(args.s)
    /\ Contains(args.s, <<"\r", "\n">>)
    /\ HasOuterSpace(args.s)
    /\ Contains(ret.value, <<"a", "\n", "a">>)

---------------------------------------------------------------------------
(* parse_salary, transformer.py:121-147 *)

\* s.replace(",", "")
RECURSIVE RemoveCommas(_)
RemoveCommas(s) ==
    IF s = <<>> THEN <<>>
    ELSE IF s[1] = "," THEN RemoveCommas(Tail(s))
         ELSE <<s[1]>> \o RemoveCommas(Tail(s))

\* length of the longest run of digits that starts at s[i]
RECURSIVE DigitRun(_, _)
DigitRun(s, i) == IF i <= Len(s) /\ IsDigit(s[i]) THEN 1 + DigitRun(s, i + 1) ELSE 0

\* int() of a string of digits
RECURSIVE DigitsVal(_)
DigitsVal(ds) ==
    IF ds = <<>> THEN 0 ELSE 10 * DigitsVal(SubSeq(ds, 1, Len(ds) - 1)) + DigitVal(ds[Len(ds)])

\* A float read from decimal text, kept exact: <<whole part, fraction part in
\* units of 10^-FracDigits>>.  Values compare as the floats do.
FracDigits == MaxSalaryLen
PadRight(ds, n) == [i \in 1..n |-> IF i <= Len(ds) THEN ds[i] ELSE "0"]
Float(whole, frac) == <<DigitsVal(whole), DigitsVal(PadRight(frac, FracDigits))>>
ValueLess(a, b) == a[1] < b[1] \/ (a[1] = b[1] /\ a[2] < b[2])

\* float(num), then v * 1000.0 under a "k" suffix (lines 139-141)
TokenValue(whole, frac, k) ==
    IF k
    THEN Float(whole \o SubSeq(PadRight(frac, 3), 1, 3),
               IF Len(frac) > 3 THEN From(frac, 4) ELSE <<>>)
    ELSE Float(whole, frac)

\* re.findall(r"(\d+(?:\.\d+)?)(k)?", s), each match turned into its value
RECURSIVE FindNumbers(_, _)
FindNumbers(s, i) ==
    IF i > Len(s) THEN <<>>
    ELSE IF ~IsDigit(s[i]) THEN FindNumbers(s, i + 1)
    ELSE LET w == DigitRun(s, i)
             hasFrac == /\ i + w <= Len(s)
                        /\ s[i + w] = "."
                        /\ DigitRun(s, i + w + 1) > 0
             f == IF hasFrac THEN DigitRun(s, i + w + 1) ELSE 0
             e == IF hasFrac THEN i + w + 1 + f ELSE i + w
             k == e <= Len(s) /\ s[e] = "k"
             whole == SubSeq(s, i, i + w - 1)
             frac == IF hasFrac THEN SubSeq(s, i + w + 1, i + w + f) ELSE <<>>
         IN  <<TokenValue(whole, frac, k)>> \o FindNumbers(s, IF k THEN e + 1 ELSE e)

\* min(values), max(values)
RECURSIVE MinValue(_)
MinValue(vs) ==
    IF Len(vs) = 1 THEN vs[1]
    ELSE LET m == MinValue(Tail(vs)) IN IF ValueLess(m, vs[1]) THEN m ELSE vs[1]
RECURSIVE MaxValue(_)
MaxValue(vs) ==
    IF Len(vs) = 1 THEN vs[1]
    ELSE LET m == MaxValue(Tail(vs)) IN IF ValueLess(vs[1], m) THEN m ELSE vs[1]

EuroLiteral == <<"U+00E2", "U+201A", "U+00AC">>

\* lines 129-134
DetectCurrency(s, s_clean) ==
    IF Contains(s, <<"$">>) \/ Contains(s_clean, <<"u", "s", "d">>) THEN "USD"
    ELSE IF Contains(s, EuroLiteral) \/ Contains(s_clean, <<"e", "u", "r">>) THEN "EUR"
    ELSE "None"

\* a parser that takes the first number as min and the last as max
parse_salary_first_last(s) ==
    IF ~Truthy(s) \/ Strip(s) = <<>>
    THEN [min |-> None, max |-> None, currency |-> "None"]
    ELSE LET s_clean == Lower(RemoveCommas(s))
             currency == DetectCurrency(s, s_clean)
             values == FindNumbers(s_clean, 1)
         IN  IF Len(values) = 0
             THEN [min |-> None, max |-> None, currency |-> currency]
             ELSE [min |-> Some(values[1]), max |-> Some(values[Len(values)]),
                   currency |-> currency]
parse_salary(s) ==
    IF ~Truthy(s) \/ Strip(s) = <<>>
    THEN [min |-> None, max |-> None, currency |-> "None"]
    ELSE LET s_clean == Lower(RemoveCommas(s))
             currency == DetectCurrency(s, s_clean)
             values == FindNumbers(s_clean, 1)
         IN  IF Len(values) = 0
             THEN [min |-> None, max |-> None, currency |-> currency]
             ELSE IF Len(values) = 1
             THEN [min |-> Some(values[1]), max |-> Some(values[1]), currency |-> currency]
             ELSE [min |-> Some(MinValue(values)), max |-> Some(MaxValue(values)),
                   currency |-> currency]

\* Inputs: every string over SalaryChars up to MaxSalaryLen characters, and
\* every concatenation of up to MaxCurrencyAtoms of CurrencyAtoms.
SalaryChars == {"0", "1", "2", "k", ".", ",", "-", " "}
CurrencyAtoms ==
    {<<"$">>, <<"U", "s", "d">>, <<"E", "U", "R">>, <<"U+20AC">>, EuroLiteral,
     <<"5">>, <<"k">>, <<",">>, <<" ">>, <<"u", "s">>, <<"d">>}
SalaryInputs ==
    {Null} \cup SeqsUpTo(SalaryChars, MaxSalaryLen)
           \cup {Concat(a) : a \in SeqsUpTo(CurrencyAtoms, MaxCurrencyAtoms)}

CallParseSalary ==
    /\ pc = "call"
    /\ args.fn = "parse_salary"
    /\ ret' = Returned(parse_salary(args.s))
    /\ pc' = "return"
    /\ UNCHANGED <<COMMON_SKILLS, SENIORITY_MAP, args, out>>

InitSalary ==
    /\ InitBase
    /\ args \in {[fn |-> "parse_salary", s |-> s] : s \in SalaryInputs}

SpecSalary == InitSalary /\ [][CallParseSalary]_vars

SalaryReturned == pc = "return" /\ args.fn = "parse_salary"
AllDigits(s) == s # <<>> /\ \A i \in 1..Len(s) : IsDigit(s[i])
HasDigit(s) == \E i \in 1..Len(s) : IsDigit(s[i])
Thousands(n) == <<1000 * n, 0>>
Smaller(a, b) == IF a < b THEN a ELSE b
Larger(a, b) == IF a < b THEN b ELSE a

\* s reads "<a>k<sep><b>k": a = s[1..i], b = s[j..Len(s)-1], sep without digits
KRange(s, i, j) ==
    /\ 1 <= i /\ i + 1 < j /\ j < Len(s)
    /\ AllDigits(SubSeq(s, 1, i))
    /\ LowerChar(s[i + 1]) = "k"
    /\ \A m \in (i + 2)..(j - 1) : s[m] \in {"-", " "}
    /\ AllDigits(SubSeq(s, j, Len(s) - 1))
    /\ LowerChar(s[Len(s)]) = "k"

\* C4: parse_salary gives min and max both null exactly when the string holds
\* no number; a string that is one bare number n gives min = max = n, and
\* "<n>k" gives n * 1000; "<a>k - <b>k" gives min(a,b) * 1000 and
\* max(a,b) * 1000 in either order; min and max are both null or both present,
\* and min <= max when present.
C4_ParseSalary ==
    SalaryReturned =>
        LET r == ret.value
            s == args.s
        IN  /\ (r.min = None) <=> (r.max = None)
            /\ (r.min = None) <=> (s = Null \/ ~HasDigit(s))
            /\ r.min # None => ~ValueLess(r.max[1], r.min[1])
            /\ (s # Null /\ AllDigits(s)) =>
                   r.min = Some(<<DigitsVal(s), 0>>) /\ r.max = r.min
            /\ (s # Null /\ Len(s) >= 2 /\ AllDigits(SubSeq(s, 1, Len(s) - 1))
                    /\ s[Len(s)] = "k") =>
                   /\ r.min = Some(Thousands(DigitsVal(SubSeq(s, 1, Len(s) - 1))))
                   /\ r.max = r.min
            /\ s # Null =>
                 \A i \in 1..Len(s), j \in 1..Len(s) :
                   KRange(s, i, j) =>
                     LET a == DigitsVal(SubSeq(s, 1, i))
                         b == DigitsVal(SubSeq(s, j, Len(s) - 1))
                     IN  /\ r.min = Some(Thousands(Smaller(a, b)))
                         /\ r.max = Some(Thousands(Larger(a, b)))

\* "2k-1k": the larger bound first
C4_Witness ==
    /\ SalaryReturned
    /\ args.s # Null
    /\ Contains(args.s, <<"-">>)
    /\ \E i \in 1..Len(args.s), j \in 1..Len(args.s) :
          /\ KRange(args.s, i, j)
          /\ DigitsVal(SubSeq(args.s, 1, i)) > DigitsVal(SubSeq(args.s, j, Len(args.s) - 1))
    /\ ValueLess(ret.value.min[1], ret.value.max[1])

\* C5: for a non-blank string the currency is "USD" when it holds "$" or
\* "usd" in any case, otherwise "EUR" when it holds the Euro sign or "eur" in
\* any case, otherwise null.
C5_Currency ==
    (SalaryReturned /\ Truthy(args.s) /\ Strip(args.s) # <<>>) =>
        ret.value.currency =
            IF Contains(args.s, <<"$">>) \/ Contains(Lower(args.s), <<"u", "s", "d">>)
            THEN "USD"
            ELSE IF \/ Contains(args.s, <<"U+20AC">>)
                    \/ Contains(Lower(args.s), <<"e", "u", "r">>)
                 THEN "EUR"
                 ELSE "None"

---------------------------------------------------------------------------
(* infer_seniority, transformer.py:150-157.  The bucket labels are atoms. *)

\* for k, v in table.items(): if k in t: return v  -- from entry i on
RECURSIVE ScanTable(_, _, _)
ScanTable(table, t, i) ==
    IF i > Len(table) THEN "mid"
    ELSE IF Contains(t, table[i].k) THEN table[i].v
    ELSE ScanTable(table, t, i + 1)

Reverse(q) == [i \in 1..Len(q) |-> q[Len(q) + 1 - i]]

\* a classifier that walks the table from its last entry
infer_seniority_reversed(title) ==
    IF ~Truthy(title) THEN ""
    ELSE ScanTable(Reverse(SENIORITY_MAP), Lower(title), 1)
\* a classifier without the `if not title` guard
infer_seniority_unguarded(title) ==
    ScanTable(SENIORITY_MAP, IF title = Null THEN <<>> ELSE Lower(title), 1)
infer_seniority(title) ==
    IF ~Truthy(title) THEN ""
    ELSE ScanTable(SENIORITY_MAP, Lower(title), 1)

TitleAtoms ==
    {<<"S", "e", "n", "i", "o", "r">>, <<"s", "R", ".">>, <<"L", "e", "a", "d">>,
     <<"p", "r", "i", "n", "c", "i", "p", "a", "l">>, <<"S", "T", "A", "F", "F">>,
     <<"j", "u", "n", "i", "o", "r">>, <<"J", "r", ".">>, <<"i", "n", "t", "e", "r", "n">>,
     <<"M", "a", "n", "a", "g", "e", "r">>, <<" ">>, <<"D", "a", "t", "a">>,
     <<"i", "n">>, <<"t", "e", "r", "n">>}
TitleInputs == {Null} \cup {Concat(a) : a \in SeqsUpTo(TitleAtoms, MaxTitleAtoms)}

CallInferSeniority ==
    /\ pc = "call"
    /\ args.fn = "infer_seniority"
    /\ ret' = Returned(infer_seniority(args.title))
    /\ pc' = "return"
    /\ UNCHANGED <<COMMON_SKILLS, SENIORITY_MAP, args, out>>

InitSeniority ==
    /\ InitBase
    /\ args \in {[fn |-> "infer_seniority", title |-> s] : s \in TitleInputs}

SpecSeniority == InitSeniority /\ [][CallInferSeniority]_vars

SeniorityReturned == pc = "return" /\ args.fn = "infer_seniority"
Has(t, w) == Contains(Lower(t), w)

\* C9: infer_seniority gives "" for an absent or empty title; otherwise the
\* bucket of the first keyword, in the order senior, sr., lead, principal,
\* staff, junior, jr., intern, manager, that is a case-insensitive substring
\* of the title, wherever it stands; "mid" when none is; always one of
\* senior, junior, intern, manager, mid, "".
C9_InferSeniority ==
    SeniorityReturned =>
        LET t == args.title
        IN  /\ ret.value \in {"senior", "junior", "intern", "manager", "mid", ""}
            /\ ret.value =
                 IF t = Null \/ t = <<>> THEN ""
                 ELSE IF \/ Has(t, <<"s", "e", "n", "i", "o", "r">>)
                         \/ Has(t, <<"s", "r", ".">>)
                         \/ Has(t, <<"l", "e", "a", "d">>)
                         \/ Has(t, <<"p", "r", "i", "n", "c", "i", "p", "a", "l">>)
                         \/ Has(t, <<"s", "t", "a", "f", "f">>)
                      THEN "senior"
                 ELSE IF \/ Has(t, <<"j", "u", "n", "i", "o", "r">>)
                         \/ Has(t, <<"j", "r", ".">>)
                      THEN "junior"
                 ELSE IF Has(t, <<"i", "n", "t", "e", "r", "n">>) THEN "intern"
                 ELSE IF Has(t, <<"m", "a", "n", "a", "g", "e", "r">>) THEN "manager"
                 ELSE "mid"

\* a title that names "junior" before "lead" is senior
C9_Witness ==
    /\ SeniorityReturned
    /\ args.title # Null
    /\ \E i \in 1..Len(args.title), j \in 1..Len(args.title) :
          /\ i < j
          /\ StartsAt(Lower(args.title), <<"j", "u", "n", "i", "o", "r">>, i)
          /\ StartsAt(Lower(args.title), <<"l", "e", "a", "d">>, j)
    /\ ret.value = "senior"

---------------------------------------------------------------------------
(* extract_skills, transformer.py:88-102 *)

\* `text or ""`
OrEmpty(s) == IF Truthy(s) THEN s ELSE <<>>

\* regex \b at the gap before text[p]: a word character on exactly one side
WordAt(text, p) == p >= 1 /\ p <= Len(text) /\ IsWord(text[p])
Boundary(text, p) == WordAt(text, p - 1) # WordAt(text, p)

\* re.search(r"\b" + re.escape(word) + r"\b", text)
SearchWord_unanchored(word, text) == Contains(text, word)
SearchWord(word, text) ==
    \E i \in 1..(Len(text) + 1) :
        /\ StartsAt(text, word, i)
        /\ Boundary(text, i)
        /\ Boundary(text, i + Len(word))

\* str comparison: lexicographic by code point
RECURSIVE StrLess(_, _)
StrLess(a, b) ==
    IF b = <<>> THEN FALSE
    ELSE IF a = <<>> THEN TRUE
    ELSE IF a[1] # b[1] THEN Ord(a[1]) < Ord(b[1])
    ELSE StrLess(Tail(a), Tail(b))

\* sorted(set)
RECURSIVE Sorted(_)
Sorted(S) ==
    IF S = {} THEN <<>>
    ELSE LET m == CHOOSE x \in S : \A y \in S \ {x} : StrLess(x, y)
         IN  <<m>> \o Sorted(S \ {m})

\* `extra_skills or []`
OrEmptyList(extra_skills) == IF extra_skills = NullList THEN <<>> ELSE extra_skills

\* a + b on lists (line 96): the result is a new list, the operands stay as
\* they are.  left and right are the operands after the operation.
ListExtend(a, b) == [result |-> a \o b, left |-> a \o b, right |-> b]
ListAdd(a, b) == [result |-> a \o b, left |-> a, right |-> b]

\* What line 96 leaves in COMMON_SKILLS and in the caller's list.  An empty
\* or absent extra_skills is replaced by a fresh [] and is not an operand.
Candidates(extra_skills) == ListAdd(COMMON_SKILLS, OrEmptyList(extra_skills))
CallerListAfter(extra_skills) ==
    IF OrEmptyList(extra_skills) = <<>> THEN extra_skills
    ELSE Candidates(extra_skills).right

extract_skills(text, tags, extra_skills) ==
    LET text_lower == Lower(OrEmpty(text))
        tag_candidates == OrEmpty(tags)
        candidates == Candidates(extra_skills).result
        skills_set == {Lower(candidates[i]) : i \in
                          {j \in 1..Len(candidates) :
                              \/ SearchWord(Lower(candidates[j]), text_lower)
                              \/ SearchWord(Lower(candidates[j]), Lower(tag_candidates))}}
    IN  Sorted(skills_set)

SkillTextAtoms ==
    {<<"J", "a", "v", "a">>, <<"s", "c", "r", "i", "p", "t">>, <<" ">>, <<"-">>,
     <<"c", "+", "+">>, <<".", "N", "E", "T">>, <<"x">>,
     <<"P", "y", "t", "h", "o", "n">>, <<"s", "q", "l">>}
SkillTexts == {Null} \cup {Concat(a) : a \in SeqsUpTo(SkillTextAtoms, MaxSkillAtoms)}
SkillTags == {Null, <<>>, <<"s", "q", "l", ",", " ", "C", "+", "+", ",", "r">>}
ExtraSkillLists ==
    {NullList, <<>>,
     <<<<"c", "+", "+">>>>,
     <<<<".", "n", "e", "t">>>>,
     <<<<>>>>,
     <<<<"x">>, <<"P", "Y", "T", "H", "O", "N">>, <<"J", "a", "v", "a", "-", "s", "c", "r", "i", "p", "t">>>>}

CallExtractSkills ==
    /\ pc = "call"
    /\ args.fn = "extract_skills"
    /\ ret' = Returned(extract_skills(args.text, args.tags, args.extra_skills))
    /\ COMMON_SKILLS' = Candidates(args.extra_skills).left
    /\ args' = [args EXCEPT !.extra_skills = CallerListAfter(args.extra_skills)]
    /\ pc' = "return"
    /\ UNCHANGED <<SENIORITY_MAP, out>>

InitSkills ==
    /\ InitBase
    /\ args \in {[fn |-> "extract_skills", text |-> x, tags |-> g, extra_skills |-> e] :
                    x \in SkillTexts, g \in SkillTags, e \in ExtraSkillLists}

SpecSkills == InitSkills /\ [][CallExtractSkills]_vars

SkillsReturned == pc = "return" /\ args.fn = "extract_skills"

\* C6: the result of extract_skills is sorted ascending, all lowercase, and
\* holds no duplicate and no empty entry, whatever extra_skills holds.
C6_SkillsSorted ==
    SkillsReturned =>
        LET r == ret.value
        IN  /\ \A i \in 1..(Len(r) - 1) : StrLess(r[i], r[i + 1])
            /\ \A i \in 1..Len(r) : r[i] # <<>> /\ r[i] = Lower(r[i])

\* word occurs in text as a whole token: the characters next to it, if any,
\* are not word characters
TokenIn(word, text) ==
    \E i \in 1..(Len(text) + 1) :
        /\ StartsAt(text, word, i)
        /\ ~WordAt(text, i - 1)
        /\ ~WordAt(text, i + Len(word))

Vocabulary ==
    Range(COMMON_SKILLS) \cup
        (IF args.extra_skills = NullList THEN {} ELSE Range(args.extra_skills) \ {<<>>})

\* C7: a skill of the vocabulary is reported exactly when it occurs, ignoring
\* case, in the description or the tags as a whole token delimited by
\* non-word characters or the ends of the text, also when its name holds
\* punctuation.
C7_WholeToken ==
    SkillsReturned =>
        \A skill \in Vocabulary :
            (Lower(skill) \in Range(ret.value)) <=>
                \/ TokenIn(Lower(skill), Lower(OrEmpty(args.text)))
                \/ TokenIn(Lower(skill), Lower(OrEmpty(args.tags)))

---------------------------------------------------------------------------
(* standardize_location, transformer.py:105-118 *)

\* re.sub(r"\s+", " ", l)
RECURSIVE CollapseSpaces(_)
CollapseSpaces(s) ==
    IF s = <<>> THEN <<>>
    ELSE IF IsSpace(s[1])
         THEN IF Len(s) >= 2 /\ IsSpace(s[2])
              THEN CollapseSpaces(Tail(s))
              ELSE <<" ">> \o CollapseSpaces(Tail(s))
         ELSE <<s[1]>> \o CollapseSpaces(Tail(s))

\* str.title(): a cased character is upper case after an uncased one (or at
\* the start) and lower case after a cased one
Title(s) ==
    [i \in 1..Len(s) |->
        IF i > 1 /\ IsCased(s[i - 1]) THEN LowerChar(s[i]) ELSE UpperChar(s[i])]

RemoteTokens ==
    {<<"r", "e", "m", "o", "t", "e">>,
     <<"a", "n", "y", "w", "h", "e", "r", "e">>,
     <<"w", "o", "r", "l", "d", "w", "i", "d", "e">>,
     <<"w", "o", "r", "k", " ", "f", "r", "o", "m", " ", "h", "o", "m", "e">>}
Remote == <<"R", "e", "m", "o", "t", "e">>

\* a normaliser that looks for the tokens before lower-casing
standardize_location_cased(loc) ==
    IF ~Truthy(loc) THEN <<>>
    ELSE LET l == CollapseSpaces(Strip(loc))
         IN  IF \E tok \in RemoteTokens : Contains(l, tok) THEN Remote
             ELSE Title(Lower(l))
standardize_location(loc) ==
    IF ~Truthy(loc) THEN <<>>
    ELSE LET l == CollapseSpaces(Lower(Strip(loc)))
         IN  IF \E tok \in RemoteTokens : Contains(l, tok) THEN Remote
             ELSE Title(l)

---------------------------------------------------------------------------
(* parse_publication_date, transformer.py:79-85, and the ISO rendering of
   line 205.  dateutil's parser is given by its results on the date texts of
   the input pool; any other text fails to parse. *)

DateText == <<"2", "0", "2", "6", "-", "0", "1", "-", "0", "1">>
DateIso ==
    <<"2", "0", "2", "6", "-", "0", "1", "-", "0", "1", "T", "0", "0", ":", "0", "0", ":", "0", "0">>
BadDateText == <<"s", "o", "o", "n">>

\* a datetime is kept as its isoformat() text, wrapped
parse_publication_date(s) ==
    IF ~Truthy(s) THEN None
    ELSE IF s = DateText \/ s = DateIso THEN Some(DateIso)
    ELSE None

\* lambda d: d.isoformat() if pd.notnull(d) else None
IsoOrNone(d) == IF d = None THEN Null ELSE d[1]

---------------------------------------------------------------------------
(* transform_records, transformer.py:160-206 *)

\* ", ".join(skills)
RECURSIVE Join(_)
Join(ss) ==
    IF ss = <<>> THEN <<>>
    ELSE IF Len(ss) = 1 THEN ss[1]
    ELSE ss[1] \o <<",", " ">> \o Join(Tail(ss))

\* r.get(key): an absent key and a null value both give None
\* one pass of the loop body, lines 166-197
CanonicalRow(r, extra_skills) ==
    LET desc == clean_text(Or(Or(r.description_text, r.description), <<>>))
        tags == Or(r.tags, <<>>)
        title == clean_text(Or(r.title, <<>>))
        company == clean_text(Or(Or(r.company_name, r.company), <<>>))
        loc == standardize_location(Or(Or(r.candidate_required_location, r.location), <<>>))
        pub_date == parse_publication_date(Or(Or(r.publication_date, r.date), Null))
        salary == parse_salary(r.salary)
        skills == extract_skills(desc, tags, extra_skills)
        seniority == infer_seniority(title)
        remote_flag == IF loc = Remote THEN TRUE ELSE FALSE
    IN  [id |-> r.id,
         url |-> r.url,
         title |-> title,
         normalized_title |-> Lower(title),
         company_name |-> company,
         category |-> r.category,
         job_type |-> r.job_type,
         publication_date |-> pub_date,
         location |-> loc,
         remote |-> remote_flag,
         salary_min |-> salary.min,
         salary_max |-> salary.max,
         salary_currency |-> salary.currency,
         description |-> desc,
         tags |-> tags,
         skills |-> Join(skills),
         seniority |-> seniority,
         raw_record |-> r]

\* DataFrame.drop_duplicates(subset=...), keep="first": a row goes when an
\* earlier row has the same values in the subset columns; null equals null
Key(row, subset) == [i \in 1..Len(subset) |-> row[subset[i]]]
RECURSIVE KeepFrom(_, _, _)
KeepFrom(rows, subset, i) ==
    IF i > Len(rows) THEN <<>>
    ELSE (IF \E j \in 1..(i - 1) : Key(rows[j], subset) = Key(rows[i], subset)
          THEN <<>> ELSE <<rows[i]>>)
         \o KeepFrom(rows, subset, i + 1)
\* keep="last" in place of the default keep="first"
drop_duplicates_last(rows, subset) ==
    LET n == Len(rows)
        kept == {i \in 1..n :
                    ~\E j \in (i + 1)..n : Key(rows[j], subset) = Key(rows[i], subset)}
        RECURSIVE Pick(_)
        Pick(i) == IF i > n THEN <<>>
                   ELSE (IF i \in kept THEN <<rows[i]>> ELSE <<>>) \o Pick(i + 1)
    IN  Pick(1)
drop_duplicates(rows, subset) == KeepFrom(rows, subset, 1)

\* df["id"].notna().any()
AnyIdNotNull(rows) == \E i \in 1..Len(rows) : rows[i].id # Null

\* a deduplication that keys on id only while some id is repeated
Deduplicate_when_ids_repeat(rows) ==
    IF \E i \in 1..Len(rows), j \in 1..Len(rows) :
           i < j /\ rows[i].id # Null /\ rows[i].id = rows[j].id
    THEN drop_duplicates(rows, <<"id">>)
    ELSE drop_duplicates(rows, <<"title", "company_name", "location">>)
\* lines 198-206 on the list `out`
Deduplicate(rows) ==
    IF AnyIdNotNull(rows)
    THEN drop_duplicates(rows, <<"id">>)
    ELSE drop_duplicates(rows, <<"title", "company_name", "location">>)

IsoDates(rows) ==
    [i \in 1..Len(rows) |->
        [rows[i] EXCEPT !.publication_date = IsoOrNone(rows[i].publication_date)]]

\* One iteration of the loop of lines 165-197 (extract_skills is called on
\* line 173).
TransformRecord ==
    /\ pc = "call"
    /\ args.fn = "transform_records"
    /\ Len(out) < Len(args.records)
    /\ out' = Append(out, CanonicalRow(args.records[Len(out) + 1], args.extra_skills))
    /\ COMMON_SKILLS' = Candidates(args.extra_skills).left
    /\ args' = [args EXCEPT !.extra_skills = CallerListAfter(args.extra_skills)]
    /\ UNCHANGED <<SENIORITY_MAP, pc, ret>>

\* Lines 198-206.  A DataFrame built from an empty list has no columns:
\* drop_duplicates returns it as it is, and df["publication_date"] raises
\* KeyError.
DedupeAndReturn ==
    /\ pc = "call"
    /\ args.fn = "transform_records"
    /\ Len(out) = Len(args.records)
    /\ ret' = IF out = <<>> THEN Raised("KeyError")
              ELSE Returned(IsoDates(Deduplicate(out)))
    /\ pc' = "return"
    /\ UNCHANGED <<COMMON_SKILLS, SENIORITY_MAP, args, out>>

CallStandardizeLocation ==
    /\ pc = "call"
    /\ args.fn = "standardize_location"
    /\ ret' = Returned(standardize_location(args.loc))
    /\ pc' = "return"
    /\ UNCHANGED <<COMMON_SKILLS, SENIORITY_MAP, args, out>>

---------------------------------------------------------------------------
(* Raw records.  A RawRecord is a mapping; a key it lacks reads as None. *)

EmptyRecord ==
    [id |-> Null, url |-> Null, title |-> Null, company_name |-> Null,
     company |-> Null, category |-> Null, job_type |-> Null,
     publication_date |-> Null, date |-> Null,
     candidate_required_location |-> Null, location |-> Null,
     salary |-> Null, description_text |-> Null, description |-> Null,
     tags |-> Null]

SampleRecord ==
    [EmptyRecord EXCEPT
        !.id = <<"1">>,
        !.title = <<"S", "e", "n", "i", "o", "r", " ", "D", "e", "v">>,
        !.company_name = <<"A", "c", "m", "e">>,
        !.publication_date = DateText,
        !.candidate_required_location = <<"W", "o", "r", "l", "d", "w", "i", "d", "e">>,
        !.salary = <<"$", "8", "0", "k", " ", "-", " ", "$", "1", "2", "0", "k">>,
        !.description_text = <<"P", "y", "t", "h", "o", "n", ",", " ", "S", "Q", "L", ".">>,
        !.tags = <<"a", "w", "s", ",", " ", "s", "q", "l">>]

FallbackRecord ==
    [EmptyRecord EXCEPT
        !.title = <<"L", "e", "a", "d">>,
        !.company = <<"A", "c", "m", "e">>,
        !.date = BadDateText,
        !.location = <<"p", "a", "r", "i", "s">>,
        !.description = <<"j", "a", "v", "a", "\r", "\n", "\n", "d", "e", "v">>]

RecordIds == {Null, <<"1">>, <<"2">>}
RecordTitles == {Null, <<"L", "e", "a", "d">>, <<" ", "D", "e", "v", "\n">>}
RecordPool ==
    {[EmptyRecord EXCEPT !.id = i, !.title = x] : i \in RecordIds, x \in RecordTitles}
        \cup {SampleRecord, FallbackRecord}
ExtraSkillArgs == {NullList, <<<<"D", "e", "v">>>>}

InitTransform ==
    /\ InitBase
    /\ args \in {[fn |-> "transform_records", records |-> rs, extra_skills |-> e] :
                    rs \in SeqsUpTo(RecordPool, MaxRecords), e \in ExtraSkillArgs}

SpecTransform == InitTransform /\ [][TransformRecord \/ DedupeAndReturn]_vars

LocationAtoms ==
    {<<"R", "e", "M", "o", "t", "e">>, <<"A", "n", "y">>, <<"w", "h", "e", "r", "e">>,
     <<"W", "o", "r", "l", "d", "W", "i", "d", "e">>, <<"w", "o", "r", "k">>,
     <<"f", "r", "o", "m", " ", "H", "o", "m", "e">>, <<" ">>, <<"\t">>,
     <<"n", "e", "w", " ", "Y", "O", "R", "K">>}
LocationInputs == {Null} \cup {Concat(a) : a \in SeqsUpTo(LocationAtoms, MaxLocAtoms)}

\* standardize_location called directly, and through transform_records on a
\* single record that carries the location
InitLocation ==
    /\ InitBase
    /\ args \in {[fn |-> "standardize_location", loc |-> l] : l \in LocationInputs}
           \cup {[fn |-> "transform_records",
                  records |-> <<[EmptyRecord EXCEPT !.location = l]>>,
                  extra_skills |-> NullList] : l \in LocationInputs}

SpecLocation ==
    InitLocation /\ [][CallStandardizeLocation \/ TransformRecord \/ DedupeAndReturn]_vars

---------------------------------------------------------------------------
(* Claims about transform_records and the deduplication. *)

TransformReturned == pc = "return" /\ args.fn = "transform_records"
TransformValue == TransformReturned /\ ret.kind = "value"

\* C1: for every sequence of raw records, the empty one included, the call
\* returns without raising, having built exactly one candidate row per input
\* record before deduplication.
C1_NeverRaises ==
    TransformReturned =>
        /\ ret.kind = "value"
        /\ Len(out) = Len(args.records)
        /\ \A i \in 1..Len(out) : out[i].raw_record = args.records[i]

\* the first row of `out` that carries the identifier
FirstWithId(id) == CHOOSE i \in 1..Len(out) : out[i].id = id /\ \A j \in 1..(i - 1) : out[j].id # id
\* the place in `out` of a surviving row: survivors are told apart by id
PlaceOf(row) == FirstWithId(row.id)

\* C2: when some record has a non-null identifier, each identifier value is
\* kept once, by the first record in input order that carries it and with
\* that record's values; no two survivors share a non-null identifier; the
\* survivors stand in input order.
C2_DedupById ==
    (TransformValue /\ AnyIdNotNull(out)) =>
        LET r == ret.value
        IN  /\ \A a \in 1..Len(r), b \in 1..Len(r) :
                   (a < b /\ r[a].id # Null) => r[a].id # r[b].id
            /\ \A i \in 1..Len(out) :
                   out[i].id # Null =>
                       \E a \in 1..Len(r) :
                           r[a] = IsoDates(out)[FirstWithId(out[i].id)]
            /\ \A a \in 1..Len(r) : \E i \in 1..Len(out) : r[a] = IsoDates(out)[i]
            /\ \A a \in 1..Len(r), b \in 1..Len(r) :
                   a < b => PlaceOf(r[a]) < PlaceOf(r[b])

\* two records share an identifier, the later with other values, and a third
\* record follows
C2_Witness ==
    /\ TransformValue
    /\ \E i \in 1..Len(out), j \in 1..Len(out) :
          /\ i < j
          /\ out[i].id # Null
          /\ out[i].id = out[j].id
          /\ out[i].title # out[j].title
    /\ Len(ret.value) = 2
    /\ Len(out) = 3

Triple(row) == <<row.title, row.company_name, row.location>>

\* C3: a record without identifier is discarded only when an earlier record
\* of the input has its (title, company, location) triple, also when other
\* records of the input carry identifiers.
C3_NullIdByTriple ==
    TransformValue =>
        \A i \in 1..Len(out) :
            (/\ out[i].id = Null
             /\ \A j \in 1..(i - 1) : Triple(out[j]) # Triple(out[i]))
            => \E a \in 1..Len(ret.value) : ret.value[a] = IsoDates(out)[i]

---------------------------------------------------------------------------
(* Claims about standardize_location and the remote flag. *)

LocationReturned == pc = "return" /\ args.fn = "standardize_location"
HasRemoteToken(s) == \E tok \in RemoteTokens : Contains(s, tok)
Trimmed(loc) == CollapseSpaces(Strip(loc))

\* the location text of the single raw record of a transform_records call
RawLocation == args.records[1].location

\* C10 as stated: "Remote" for every text that holds, in any case, one of the
\* tokens; the title-cased whitespace-collapsed text otherwise; "" for empty
\* or absent input; and remote is true exactly when location is "Remote".
C10_Original ==
    /\ LocationReturned =>
           ret.value =
               IF ~Truthy(args.loc) THEN <<>>
               ELSE IF HasRemoteToken(Lower(args.loc)) THEN Remote
               ELSE Title(Trimmed(args.loc))
    /\ TransformValue =>
           \A a \in 1..Len(ret.value) :
               ret.value[a].remote <=> (ret.value[a].location = Remote)

\* C10 amended: "Remote" for every text that, trimmed and with each run of
\* whitespace collapsed to one space, holds in any case one of the tokens;
\* the title-cased trimmed and collapsed text otherwise; "" for empty or
\* absent input; and in a canonical record location is that result and
\* remote is true exactly when location is "Remote".
C10_Location ==
    LET Expected(loc) ==
            IF ~Truthy(loc) THEN <<>>
            ELSE IF HasRemoteToken(Lower(Trimmed(loc))) THEN Remote
            ELSE Title(Trimmed(loc))
    IN  /\ LocationReturned => ret.value = Expected(args.loc)
        /\ TransformValue =>
               \A a \in 1..Len(ret.value) :
                   /\ ret.value[a].location = Expected(RawLocation)
                   /\ ret.value[a].remote <=> (ret.value[a].location = Remote)

\* a record whose location reads "WorldWide" among other words is remote
C10_Witness ==
    /\ TransformValue
    /\ Truthy(RawLocation)
    /\ Contains(RawLocation, <<"W", "o", "r", "l", "d", "W", "i", "d", "e">>)
    /\ Len(RawLocation) > 9
    /\ ret.value[1].remote
    /\ ret.value[1].location = Remote

---------------------------------------------------------------------------
(* Claims about a record without any field. *)

IsDefaultRow(row) ==
    /\ row.title = <<>>
    /\ row.normalized_title = <<>>
    /\ row.company_name = <<>>
    /\ row.location = <<>>
    /\ row.description = <<>>
    /\ row.tags = <<>>
    /\ row.skills = <<>>
    /\ row.seniority = ""
    /\ row.remote = FALSE
    /\ row.id = Null
    /\ row.salary_min = None
    /\ row.salary_max = None
    /\ row.salary_currency = "None"

\* C11: a raw record with every field absent gives, without raising, exactly
\* one canonical record: title, normalized_title, company, location,
\* description, tags, skills and seniority empty, remote false, identifier,
\* publication_date, salary_min, salary_max and salary_currency null.
C11_EmptyRecord ==
    /\ \A i \in 1..Len(out) :
           (args.fn = "transform_records" /\ args.records[i] = EmptyRecord) =>
               IsDefaultRow(out[i]) /\ out[i].publication_date = None
    /\ (TransformReturned /\ args.records = <<EmptyRecord>>) =>
           /\ ret.kind = "value"
           /\ Len(ret.value) = 1
           /\ IsDefaultRow(ret.value[1])
           /\ ret.value[1].publication_date = Null

\* transform_records([{}]) has returned, with extra skills passed
C11_Witness ==
    /\ TransformValue
    /\ args.records = <<EmptyRecord>>
    /\ args.extra_skills # NullList
    /\ Len(ret.value) = 1

---------------------------------------------------------------------------
(* Claims about deduplicating twice. *)

\* C12: the deduplication step applied to its own output, in identifier mode
\* or in triple mode, gives the same records in the same order.
C12_DedupIdempotent ==
    TransformValue => Deduplicate(ret.value) = ret.value

\* a call that dropped a duplicate and kept two records, in triple mode
C12_WitnessTriple ==
    /\ TransformValue
    /\ ~AnyIdNotNull(out)
    /\ Len(ret.value) = 2
    /\ Len(out) = 3

---------------------------------------------------------------------------
(* A session: calls of extract_skills and transform_records one after the
   other in one process, so that the module globals carry over. *)

MaxSessionAtoms == 2
MaxSessionRecords == 2

Dev == <<"D", "e", "v">>
SessionAtoms == {<<"x">>, Dev, <<" ">>, <<"P", "y", "t", "h", "o", "n">>}
SessionTexts == {Concat(a) : a \in SeqsUpTo(SessionAtoms, MaxSessionAtoms)}
SessionExtras == {NullList, <<>>, <<<<"x">>>>, <<Dev, <<"x">>>>}
SessionRecords ==
    {EmptyRecord, SampleRecord,
     [EmptyRecord EXCEPT !.description = <<"x", " ", "d", "e", "v">>, !.tags = <<"s", "q", "l">>]}
SessionCalls ==
    {[fn |-> "extract_skills", text |-> x, tags |-> Null, extra_skills |-> e] :
        x \in SessionTexts, e \in SessionExtras}
    \cup
    {[fn |-> "transform_records", records |-> rs, extra_skills |-> e] :
        rs \in SeqsUpTo(SessionRecords, MaxSessionRecords), e \in SessionExtras}

\* the caller goes on to its next call
NextCall ==
    /\ pc = "return"
    /\ args' \in SessionCalls
    /\ pc' = "call"
    /\ out' = <<>>
    /\ ret' = NoReturn
    /\ UNCHANGED <<COMMON_SKILLS, SENIORITY_MAP>>

InitSession ==
    /\ InitBase
    /\ args \in SessionCalls

SpecSession ==
    InitSession /\ [][CallExtractSkills \/ TransformRecord \/ DedupeAndReturn \/ NextCall]_vars

\* the built-in skills found in a description and its tags
BuiltinFound(text, tags) ==
    Sorted({s \in Range(BuiltinSkills) :
               SearchWord(s, Lower(OrEmpty(text))) \/ SearchWord(s, Lower(OrEmpty(tags)))})
NoExtras == args.extra_skills = NullList \/ args.extra_skills = <<>>

\* C13: after any sequence of calls with any extra_skills the built-in skill
\* list and the seniority table are as at import, no step of a call changes
\* the caller's extra_skills list, and a call that passes no extra skills
\* reports built-in skills only, whatever earlier calls passed.
C13_Frame ==
    /\ [](/\ COMMON_SKILLS = BuiltinSkills
          /\ SENIORITY_MAP = SeniorityTable
          /\ (pc = "return" /\ args.fn = "extract_skills" /\ NoExtras) =>
                 ret.value = BuiltinFound(args.text, args.tags)
          /\ (pc = "return" /\ args.fn = "transform_records" /\ NoExtras
                 /\ ret.kind = "value") =>
                 \A a \in 1..Len(ret.value) :
                     ret.value[a].skills =
                         Join(BuiltinFound(ret.value[a].description, ret.value[a].tags)))
    /\ [][pc = "call" => args'.extra_skills = args.extra_skills]_vars

\* a call that passed extra skills has found one of them, and the globals are
\* as at import
C13_Witness ==
    /\ pc = "return"
    /\ args.fn = "extract_skills"
    /\ args.extra_skills = <<Dev, <<"x">>>>
    /\ <<"x">> \in Range(ret.value)
    /\ COMMON_SKILLS = BuiltinSkills

---------------------------------------------------------------------------
(* The whole module: any one call of any of the functions. *)

Init ==
    \/ InitCleanText
    \/ InitSalary
    \/ InitSeniority
    \/ InitSkills
    \/ InitLocation
    \/ InitTransform

Next ==
    \/ CallCleanText
    \/ CallParseSalary
    \/ CallInferSeniority
    \/ CallExtractSkills
    \/ CallStandardizeLocation
    \/ TransformRecord
    \/ DedupeAndReturn

Spec == Init /\ [][Next]_vars

=============================================================================
